---- MODULE Spec2Model ----
(***************************************************************************)
(* Model of the ruler core: agent selection (resolveSelectedAgents), rule  *)
(* concatenation (concatenateRules) and the apply / backup / revert file   *)
(* state machine.  Strings are sequences of one-character strings.         *)
(***************************************************************************)
EXTENDS Integers, Sequences, FiniteSets, TLC

VARIABLES
  allAgents,   \* resolveSelectedAgents: the agent registry (sequence of agents)
  config,      \* resolveSelectedAgents: the LoadedConfig
  selection,   \* resolveSelectedAgents: outcome of the call
  selPc,       \* "idle" | "called" | "returned" | "threw"
  fragsA,      \* concatenateRules: a first sequence of {path, content} files
  fragsB,      \* concatenateRules: the files appended to it
  baseDir,     \* concatenateRules: the baseDir argument, <<>> when not given
  rulesOut,    \* concatenateRules: the strings returned for A \o B, A and B
  rulesPc,     \* "idle" | "called" | "returned"
  fs,          \* apply / revert: the file system, path -> content or NoFile
  run,         \* apply / revert: the batch in progress and the position in it
  reported,    \* apply / revert: the agents the batch has collected as failed
  outcome,     \* apply / revert: what the last finished batch signalled
  watched,     \* history: the agent whose operations are recorded
  pre,         \* history: the watched agent's file and backup before chain
  chain,       \* history: its completed applies (rules) and revert since pre
  orig,        \* history: its file when the first apply since a revert began
  rawConfigs,  \* mapRawAgentConfigs: the raw record, as its entries in order
  mapAgents,   \* mapRawAgentConfigs: the agents argument
  mappedConfigs, \* mapRawAgentConfigs: the returned record, identifier -> config
  mapPc,       \* "idle" | "called" | "returned"
  agentOptions \* per agent, the outputPath override of its configuration

selVars == <<allAgents, config, selection, selPc>>
rulesVars == <<fragsA, fragsB, baseDir, rulesOut, rulesPc>>
fsVars == <<fs, run, reported, outcome, agentOptions, watched, pre, chain, orig>>
mapVars == <<rawConfigs, mapAgents, mappedConfigs, mapPc>>
vars == <<selVars, rulesVars, fsVars, mapVars>>

----------------------------------------------------------------------------
(* Strings *)

UpperCase == <<"A","B","C","D","E","F","G","H","I","J","K","L","M",
               "N","O","P","Q","R","S","T","U","V","W","X","Y","Z">>
LowerCase == <<"a","b","c","d","e","f","g","h","i","j","k","l","m",
               "n","o","p","q","r","s","t","u","v","w","x","y","z">>

\* String.prototype.toLowerCase on one character
lowerChar(c) ==
  IF \E i \in 1..Len(UpperCase) : UpperCase[i] = c
  THEN LowerCase[CHOOSE i \in 1..Len(UpperCase) : UpperCase[i] = c]
  ELSE c

\* String.prototype.toLowerCase
toLowerCase(s) == [i \in 1..Len(s) |-> lowerChar(s[i])]

\* String.prototype.includes
includes(s, f) ==
  \E i \in 0..(Len(s) - Len(f)) : SubSeq(s, i + 1, i + Len(f)) = f

\* Array.prototype.join
RECURSIVE join(_, _)
join(parts, sep) ==
  IF Len(parts) = 0 THEN <<>>
  ELSE IF Len(parts) = 1 THEN parts[1]
  ELSE parts[1] \o sep \o join(Tail(parts), sep)

\* new Set(array) in insertion order: first occurrences only
RECURSIVE newSet(_)
newSet(xs) ==
  IF Len(xs) = 0 THEN <<>>
  ELSE LET init == newSet(SubSeq(xs, 1, Len(xs) - 1))
           last == xs[Len(xs)]
       IN IF \E i \in 1..Len(init) : init[i] = last THEN init
          ELSE Append(init, last)

\* list.map((n) => n.toLowerCase())
lowerAll(list) == [i \in 1..Len(list) |-> toLowerCase(list[i])]

----------------------------------------------------------------------------
(* constants.ts *)

ERROR_PREFIX == <<"[","r","u","l","e","r","]">>

createRulerError(message, context) ==
  IF Len(context) > 0
  THEN ERROR_PREFIX \o <<" ">> \o message
         \o <<" ","(","C","o","n","t","e","x","t",":"," ">> \o context \o <<")">>
  ELSE ERROR_PREFIX \o <<" ">> \o message

----------------------------------------------------------------------------
(* resolveSelectedAgents *)

Undefined == "undefined"

\* agent.getIdentifier(), agent.getName()
getIdentifier(agent) == agent.id
getName(agent) == agent.name

\* config.agentConfigs[identifier]?.enabled
enabledOf(cfg, identifier) ==
  IF ~ cfg.agentConfigs[identifier].present THEN Undefined
  ELSE cfg.agentConfigs[identifier].enabled

\* config.X && config.X.length > 0
nonEmpty(list) == list.present /\ Len(list.items) > 0

validAgentIdentifiers(agents) ==
  newSet([i \in 1..Len(agents) |-> getIdentifier(agents[i])])

validAgentNames(agents) ==
  {toLowerCase(getName(agents[i])) : i \in 1..Len(agents)}

\* variant: the identifier test is forgotten, only display names validate a filter
isInvalidFilter_namesOnly(filter, agents) ==
  ~ \E i \in 1..Len(agents) : includes(toLowerCase(agents[i].name), filter)

\* the predicate of filters.filter(...) computing invalidAgents
isInvalidFilter(filter, agents) ==
  /\ ~ \E i \in 1..Len(validAgentIdentifiers(agents)) :
         validAgentIdentifiers(agents)[i] = filter
  /\ ~ \E name \in validAgentNames(agents) : includes(name, filter)

invalidAgents(filters, agents) ==
  SelectSeq(filters, LAMBDA f : isInvalidFilter(f, agents))

\* agent.getIdentifier() === f || agent.getName().toLowerCase().includes(f)
matchesFilter(agent, f) ==
  \/ getIdentifier(agent) = f
  \/ includes(toLowerCase(getName(agent)), f)

matchesAny(agent, filters) ==
  \E i \in 1..Len(filters) : matchesFilter(agent, filters[i])

ValidAgentsAre(agents) ==
  <<"V","a","l","i","d"," ","a","g","e","n","t","s"," ","a","r","e",":"," ">>
    \o join(validAgentIdentifiers(agents), <<",", " ">>)

InvalidAgentSpecified ==
  <<"I","n","v","a","l","i","d"," ","a","g","e","n","t"," ",
    "s","p","e","c","i","f","i","e","d">>

InDefaultAgents ==
  <<" ","i","n"," ","d","e","f","a","u","l","t","_","a","g","e","n","t","s">>

Returned(agents) == [threw |-> FALSE, agents |-> agents, message |-> <<>>]
Threw(message) == [threw |-> TRUE, agents |-> <<>>, message |-> message]

\* variant: the CLI branch also drops the agents disabled in agentConfigs
selectByCli_honoursEnabled(cfg, agents) ==
  LET filters == lowerAll(cfg.cliAgents.items)
      invalid == invalidAgents(filters, agents)
  IN IF Len(invalid) > 0
     THEN Threw(createRulerError(
            InvalidAgentSpecified \o <<":", " ">> \o join(invalid, <<",", " ">>),
            ValidAgentsAre(agents)))
     ELSE Returned(SelectSeq(agents,
            LAMBDA a : /\ matchesAny(a, filters)
                       /\ enabledOf(cfg, getIdentifier(a)) # "false"))

\* the branch taken when config.cliAgents is non-empty
selectByCli(cfg, agents) ==
  LET filters == lowerAll(cfg.cliAgents.items)
      invalid == invalidAgents(filters, agents)
  IN IF Len(invalid) > 0
     THEN Threw(createRulerError(
            InvalidAgentSpecified \o <<":", " ">> \o join(invalid, <<",", " ">>),
            ValidAgentsAre(agents)))
     ELSE Returned(SelectSeq(agents, LAMBDA a : matchesAny(a, filters)))

\* variant: enabled only opts out, membership in default_agents is still required
defaultKeeps_membershipRequired(cfg, agent, defaults) ==
  /\ enabledOf(cfg, getIdentifier(agent)) # "false"
  /\ matchesAny(agent, defaults)

\* the per-agent predicate of the default_agents branch
defaultKeeps(cfg, agent, defaults) ==
  LET override == enabledOf(cfg, getIdentifier(agent))
  IN IF override # Undefined THEN override = "true"
     ELSE matchesAny(agent, defaults)

\* the branch taken when config.defaultAgents is non-empty
selectByDefaults(cfg, agents) ==
  LET defaults == lowerAll(cfg.defaultAgents.items)
      invalid == invalidAgents(defaults, agents)
  IN IF Len(invalid) > 0
     THEN Threw(createRulerError(
            InvalidAgentSpecified \o InDefaultAgents \o <<":", " ">>
              \o join(invalid, <<",", " ">>),
            ValidAgentsAre(agents)))
     ELSE Returned(SelectSeq(agents, LAMBDA a : defaultKeeps(cfg, a, defaults)))

\* variant: the fallback keeps only the agents enabled explicitly
selectByEnabled_onlyTrue(cfg, agents) ==
  Returned(SelectSeq(agents,
             LAMBDA a : enabledOf(cfg, getIdentifier(a)) = "true"))

\* the final else branch
selectByEnabled(cfg, agents) ==
  Returned(SelectSeq(agents,
             LAMBDA a : enabledOf(cfg, getIdentifier(a)) # "false"))

resolveSelectedAgents(cfg, agents) ==
  IF nonEmpty(cfg.cliAgents) THEN selectByCli(cfg, agents)
  ELSE IF nonEmpty(cfg.defaultAgents) THEN selectByDefaults(cfg, agents)
  ELSE selectByEnabled(cfg, agents)

----------------------------------------------------------------------------
(* RuleProcessor.ts: concatenateRules *)

NL == "\n"
Slash == "/"

\* the characters String.prototype.trim strips, among those the model uses
WhiteSpace == {" ", "\n", "\t", "\r"}

RECURSIVE trimStart(_)
trimStart(s) ==
  IF Len(s) > 0 /\ s[1] \in WhiteSpace THEN trimStart(Tail(s)) ELSE s

RECURSIVE trimEnd(_)
trimEnd(s) ==
  IF Len(s) > 0 /\ s[Len(s)] \in WhiteSpace
  THEN trimEnd(SubSeq(s, 1, Len(s) - 1)) ELSE s

\* String.prototype.trim
trim(s) == trimEnd(trimStart(s))

\* the segments of an absolute, normalized POSIX path
RECURSIVE splitPath(_)
splitPath(p) ==
  IF Len(p) = 0 THEN <<>>
  ELSE IF p[1] = Slash THEN splitPath(Tail(p))
  ELSE LET n == IF \E i \in 1..Len(p) : p[i] = Slash
                THEN (CHOOSE i \in 1..Len(p) :
                        p[i] = Slash /\ \A j \in 1..(i - 1) : p[j] # Slash) - 1
                ELSE Len(p)
       IN <<SubSeq(p, 1, n)>> \o splitPath(SubSeq(p, n + 1, Len(p)))

\* number of leading segments two paths share
RECURSIVE commonPrefix(_, _)
commonPrefix(a, b) ==
  IF Len(a) > 0 /\ Len(b) > 0 /\ a[1] = b[1]
  THEN 1 + commonPrefix(Tail(a), Tail(b)) ELSE 0

\* path.relative(from, to) on absolute POSIX paths
relative(from, to) ==
  LET f == splitPath(from)
      t == splitPath(to)
      k == commonPrefix(f, t)
      ups == [i \in 1..(Len(f) - k) |-> <<".", ".">>]
  IN join(ups \o SubSeq(t, k + 1, Len(t)), <<Slash>>)

\* process.cwd()
Cwd == <<"/","q">>

\* ['---', `Source: ${rel}`, '---', content.trim(), ''].join('\n')
section(file, base) ==
  join(<< <<"-","-","-">>,
          <<"S","o","u","r","c","e",":"," ">> \o relative(base, file.path),
          <<"-","-","-">>,
          trim(file.content),
          <<>> >>, <<NL>>)

\* variant: the sections are joined by a blank line
concatenateRules_blankLine(files, dir) ==
  LET base == IF Len(dir) > 0 THEN dir ELSE Cwd
  IN join([i \in 1..Len(files) |-> section(files[i], base)], <<NL, NL>>)

concatenateRules(files, dir) ==
  LET base == IF Len(dir) > 0 THEN dir ELSE Cwd
  IN join([i \in 1..Len(files) |-> section(files[i], base)], <<NL>>)

MaxFragments == 2

FragmentPool ==
  { [path |-> <<"/","p","/","a">>,         content |-> <<" ","X"," ">>],
    [path |-> <<"/","p","/","d","/","b">>, content |-> <<"Y",NL,"Z",NL>>],
    [path |-> <<"/","q","/","c">>,         content |-> <<NL," ">>] }

BaseDirs == { <<>>, <<"/","p">>, <<"/","p","/","d">> }

NoRules == [ab |-> <<>>, a |-> <<>>, b |-> <<>>]

RulesInit ==
  /\ fragsA \in UNION {[1..k -> FragmentPool] : k \in 0..MaxFragments}
  /\ fragsB \in UNION {[1..k -> FragmentPool] : k \in 0..MaxFragments}
  /\ baseDir \in BaseDirs
  /\ rulesOut = NoRules
  /\ rulesPc = "called"

\* concatenateRules on the appended fragments and on each part
Concatenate ==
  /\ rulesPc = "called"
  /\ rulesOut' = [ab |-> concatenateRules(fragsA \o fragsB, baseDir),
                  a  |-> concatenateRules(fragsA, baseDir),
                  b  |-> concatenateRules(fragsB, baseDir)]
  /\ rulesPc' = "returned"
  /\ UNCHANGED <<fragsA, fragsB, baseDir, selVars, fsVars, mapVars>>

RulesIdle ==
  /\ fragsA = <<>> /\ fragsB = <<>> /\ baseDir = <<>>
  /\ rulesOut = NoRules /\ rulesPc = "idle"

----------------------------------------------------------------------------
(* Inputs of resolveSelectedAgents *)

MaxAgents == 2
MaxFilters == 2

\* amazonqcli / "Amazon Q CLI", copilot / "GitHub Copilot", amp / "Amp", shortened
AgentPool ==
  { [id |-> <<"q","c">>,     name |-> <<"Q"," ","C">>],
    [id |-> <<"c","o","p">>, name |-> <<"H","u","b"," ","C","o","p">>],
    [id |-> <<"a","m","p">>, name |-> <<"A","m","p">>] }

AgentIds == {a.id : a \in AgentPool}

\* "QC": an identifier in upper case, inside no display name; "c": inside two
\* lower-cased display names, no identifier; "x": matches nothing
FilterPool == { <<"Q","C">>, <<"c">>, <<"x">> }

SeqsUpTo(S, n) == UNION {[1..k -> S] : k \in 0..n}

Registries ==
  {r \in SeqsUpTo(AgentPool, MaxAgents) :
     \A i, j \in 1..Len(r) : i # j => r[i].id # r[j].id}

\* an optional list: absent (undefined), or present with its items
AbsentList == [present |-> FALSE, items |-> <<>>]
FilterLists ==
  {[present |-> TRUE, items |-> l] : l \in SeqsUpTo(FilterPool, MaxFilters)}
    \cup {AbsentList}

EnabledValues == {Undefined, "true", "false"}

\* agentConfigs[id]: no entry, or an entry whose enabled is unset, true or false
NoEntry == [present |-> FALSE, enabled |-> Undefined]
\* the identifiers the configuration file may carry a section for
ConfigurableIds == {<<"q","c">>, <<"c","o","p">>}
AgentConfigs ==
  {c \in [AgentIds -> {NoEntry} \cup [present : {TRUE}, enabled : EnabledValues]] :
     \A id \in AgentIds \ ConfigurableIds : c[id] = NoEntry}

Configs ==
  [cliAgents : FilterLists, defaultAgents : FilterLists,
   agentConfigs : AgentConfigs]

NoSelection == [threw |-> FALSE, agents |-> <<>>, message |-> <<>>]

SelIdle ==
  /\ allAgents = <<>>
  /\ config = [cliAgents |-> AbsentList, defaultAgents |-> AbsentList,
               agentConfigs |-> [id \in AgentIds |-> NoEntry]]
  /\ selection = NoSelection
  /\ selPc = "idle"

SelInit ==
  /\ allAgents \in Registries
  /\ config \in Configs
  /\ selection = NoSelection
  /\ selPc = "called"

\* one call of resolveSelectedAgents: it returns a selection or throws
Resolve ==
  /\ selPc = "called"
  /\ LET r == resolveSelectedAgents(config, allAgents)
     IN /\ selection' = r
        /\ selPc' = IF r.threw THEN "threw" ELSE "returned"
  /\ UNCHANGED <<allAgents, config>>

----------------------------------------------------------------------------
(* mapRawAgentConfigs *)

\* Object.entries(raw): the record's entries in iteration order (insertion
\* order, the keys of the model not being integer-like)
objectEntries(raw) == raw

\* mappedConfigs[identifier] = cfg
assignConfig(mapped, identifier, cfg) ==
  [x \in (DOMAIN mapped) \cup {identifier} |->
     IF x = identifier THEN cfg ELSE mapped[x]]

\* variant: an identifier already mapped keeps its first configuration
RECURSIVE mapKey_keepsFirst(_, _, _, _)
mapKey_keepsFirst(mapped, key, cfg, agents) ==
  IF Len(agents) = 0 THEN mapped
  ELSE LET lowerKey == toLowerCase(key)
           identifier == getIdentifier(agents[1])
           hit == \/ identifier = lowerKey
                  \/ includes(toLowerCase(getName(agents[1])), lowerKey)
       IN mapKey_keepsFirst(
            IF hit /\ identifier \notin DOMAIN mapped
            THEN assignConfig(mapped, identifier, cfg) ELSE mapped,
            key, cfg, Tail(agents))

\* the inner loop over the agents, for one raw entry
RECURSIVE mapKey(_, _, _, _)
mapKey(mapped, key, cfg, agents) ==
  IF Len(agents) = 0 THEN mapped
  ELSE LET lowerKey == toLowerCase(key)
           identifier == getIdentifier(agents[1])
           hit == \/ identifier = lowerKey
                  \/ includes(toLowerCase(getName(agents[1])), lowerKey)
       IN mapKey(IF hit THEN assignConfig(mapped, identifier, cfg) ELSE mapped,
                 key, cfg, Tail(agents))

\* the outer loop over the raw entries
RECURSIVE mapEntries(_, _, _)
mapEntries(mapped, entries, agents) ==
  IF Len(entries) = 0 THEN mapped
  ELSE mapEntries(mapKey(mapped, entries[1].key, entries[1].cfg, agents),
                  Tail(entries), agents)

mapRawAgentConfigs(raw, agents) ==
  mapEntries(<<>>, objectEntries(raw), agents)

MaxRawKeys == 2

\* user-provided keys: an identifier in upper and in lower case, a piece of two
\* display names, a key matching nothing
RawKeyPool == { <<"Q","C">>, <<"q","c">>, <<"C">>, <<"x">> }

\* IAgentConfig values
AgentConfigPool == { [enabled |-> "true"], [enabled |-> "false"] }

\* records of at most MaxRawKeys entries: no key twice
RawRecords ==
  {r \in SeqsUpTo([key : RawKeyPool, cfg : AgentConfigPool], MaxRawKeys) :
     \A i, j \in 1..Len(r) : i # j => r[i].key # r[j].key}

MapIdle ==
  /\ rawConfigs = <<>> /\ mapAgents = <<>>
  /\ mappedConfigs = <<>> /\ mapPc = "idle"

MapInit ==
  /\ rawConfigs \in RawRecords
  /\ mapAgents \in Registries
  /\ mappedConfigs = <<>>
  /\ mapPc = "called"

\* one call of mapRawAgentConfigs
MapRawAgentConfigs ==
  /\ mapPc = "called"
  /\ mappedConfigs' = mapRawAgentConfigs(rawConfigs, mapAgents)
  /\ mapPc' = "returned"
  /\ UNCHANGED <<rawConfigs, mapAgents, selVars, rulesVars, fsVars>>

----------------------------------------------------------------------------
(* Apply engine and revert engine: the file operations on each agent's     *)
(* output path (FileSystemUtils.backupFile / writeGeneratedFile, revert)   *)

NoFile == "ENOENT"

\* the agents of a batch, in registry order
ApplyAgents == <<"amp", "copilot">>

\* agent.getDefaultOutputPath(base), relative to the project root
getDefaultOutputPath(a) ==
  IF a = "amp" THEN <<"AGENT.md">> ELSE <<"copilot-instructions.md">>

BACKUP_SUFFIX == ".bak"

\* `${filePath}.bak`
backupPath(p) == Append(p, BACKUP_SUFFIX)

\* an agent configuration without outputPath
NoOverride == [present |-> FALSE, path |-> <<>>]

\* the outputPath overrides of the model, relative to the project root
CustomPaths == { <<"CUSTOM.md">> }

\* the agents whose configuration may carry an override
OverridableAgents == {"amp"}

\* the per-agent options a run may be given
AgentOptions ==
  {o \in [{ApplyAgents[i] : i \in 1..Len(ApplyAgents)} ->
            {NoOverride} \cup {[present |-> TRUE, path |-> c] : c \in CustomPaths}] :
     \A a \in DOMAIN o : o[a].present => a \in OverridableAgents}

\* agentConfig?.outputPath, resolved against the project root, else the
\* agent's default output path
resolveOutputPath(options, a) ==
  IF options[a].present THEN options[a].path ELSE getDefaultOutputPath(a)

OutputPaths ==
  {getDefaultOutputPath(ApplyAgents[i]) : i \in 1..Len(ApplyAgents)}
    \cup CustomPaths

\* the paths of the model: output files, their backups, and backups of backups
Paths ==
  OutputPaths \cup {backupPath(p) : p \in OutputPaths}
              \cup {backupPath(backupPath(p)) : p \in OutputPaths}

exists(fsys, p) == fsys[p] # NoFile

\* variant: a backup already there is kept, the file is not copied over it
backupFile_keepFirst(fsys, p) ==
  IF exists(fsys, p) /\ ~ exists(fsys, backupPath(p))
  THEN [fsys EXCEPT ![backupPath(p)] = fsys[p]]
  ELSE fsys

\* backupFile: copy an existing file to path + suffix, over any earlier backup
backupFile(fsys, p) ==
  IF exists(fsys, p)
  THEN [fsys EXCEPT ![backupPath(p)] = fsys[p]]
  ELSE fsys

\* writeGeneratedFile: write the content, overwriting
writeGeneratedFile(fsys, p, content) == [fsys EXCEPT ![p] = content]

\* variant: the restore copies nothing
restoreFromBackup_noCopy(fsys, p) == fsys

\* revert: copy the backup back over the output file
restoreFromBackup(fsys, p) == [fsys EXCEPT ![p] = fsys[backupPath(p)]]

\* revert: delete the backup artifact
removeBackup(fsys, p) == [fsys EXCEPT ![backupPath(p)] = NoFile]

\* revert: delete the generated file that has no backup
removeGeneratedFile(fsys, p) == [fsys EXCEPT ![p] = NoFile]

Idle == [kind |-> "idle", agents |-> <<>>, i |-> 0, step |-> "idle",
         rules |-> "none", keepBackups |-> FALSE]

firstStep(kind) == IF kind = "apply" THEN "backup" ELSE "restore"

\* the batch loop moves to the next selected agent, or ends
advance(r) ==
  IF r.i >= Len(r.agents)
  THEN [r EXCEPT !.i = r.i + 1, !.step = "done"]
  ELSE [r EXCEPT !.i = r.i + 1, !.step = firstStep(r.kind)]

\* a failed agent is collected and the loop goes on with its siblings
afterFailure(r) == advance(r)

\* the batch signals failure when any agent failed
batchOutcome(failedAgents) ==
  IF failedAgents = {} THEN "success" ELSE "failure"

current == run.agents[run.i]
currentPath == resolveOutputPath(agentOptions, current)

Active(kind, step) ==
  /\ run.kind = kind /\ run.step = step
  /\ run.i \in 1..Len(run.agents)

\* the concatenated rules handed to the agents
RulesTexts == {"rules-1", "rules-2"}

\* registry-ordered, non-empty selections
Selections ==
  {sel \in UNION {[1..k -> {ApplyAgents[i] : i \in 1..Len(ApplyAgents)}] :
                    k \in 1..Len(ApplyAgents)} :
     \E pick \in [1..Len(sel) -> 1..Len(ApplyAgents)] :
       /\ \A k \in 1..Len(sel) : sel[k] = ApplyAgents[pick[k]]
       /\ \A k \in 1..(Len(sel) - 1) : pick[k] < pick[k + 1]}

----------------------------------------------------------------------------
(* History of the watched agent *)

MaxChain == 3

NoSnapshot == [file |-> "none", bak |-> "none"]
NoWindow == "none"

Snapshot(p) == [file |-> fs[p], bak |-> fs[backupPath(p)]]

ChainOpen ==
  /\ Len(chain) > 0 /\ Len(chain) < MaxChain
  /\ chain[Len(chain)] # "revert"

\* an operation of the watched agent begins
BeginOp ==
  IF current # watched THEN UNCHANGED <<pre, chain>>
  ELSE IF ChainOpen THEN UNCHANGED <<pre, chain>>
  ELSE pre' = Snapshot(currentPath) /\ chain' = <<>>

\* an apply of the watched agent has made its backup: the window opens unless
\* it is open
BeginWindow ==
  orig' = IF current = watched /\ orig = NoWindow
          THEN fs[currentPath] ELSE orig

\* an operation of the watched agent ends with this tag ("broken": forget)
EndOp(tag, snap, ch) ==
  IF current # watched THEN UNCHANGED <<pre, chain>>
  ELSE IF tag = "broken" \/ (tag = "revert" /\ Len(ch) = 0)
       THEN pre' = NoSnapshot /\ chain' = <<>>
       ELSE pre' = snap /\ chain' = Append(ch, tag)

EndWindow == orig' = IF current = watched THEN NoWindow ELSE orig

----------------------------------------------------------------------------
(* Actions *)

\* the output paths the agents resolve to under the options
ResolvedPaths(options) ==
  {resolveOutputPath(options, ApplyAgents[i]) : i \in 1..Len(ApplyAgents)}

\* the initial file system: each resolved output file and its backup artifact
\* is absent or holds earlier content; the paths no agent resolves to are empty
FsInit ==
  /\ agentOptions \in AgentOptions
  /\ fs \in {f \in [Paths -> {NoFile, "original", "older"}] :
               \A p \in OutputPaths :
                 /\ f[p] \in {NoFile, "original"}
                 /\ f[backupPath(p)] \in {NoFile, "older"}
                 /\ f[backupPath(backupPath(p))] = NoFile
                 /\ p \notin ResolvedPaths(agentOptions) =>
                      f[p] = NoFile /\ f[backupPath(p)] = NoFile}
  /\ run = Idle
  /\ reported = {}
  /\ outcome = "none"
  /\ watched \in {ApplyAgents[i] : i \in 1..Len(ApplyAgents)}
  /\ pre = NoSnapshot
  /\ chain = <<>>
  /\ orig = NoWindow

FsIdle ==
  /\ agentOptions = [a \in {ApplyAgents[i] : i \in 1..Len(ApplyAgents)} |-> NoOverride]
  /\ fs = [p \in Paths |-> NoFile]
  /\ run = Idle
  /\ reported = {}
  /\ outcome = "none"
  /\ watched = ApplyAgents[1]
  /\ pre = NoSnapshot
  /\ chain = <<>>
  /\ orig = NoWindow

CanStart == run.step \in {"idle", "done"}

\* apply: a batch over the selected agents begins
StartApply ==
  /\ CanStart
  /\ \E sel \in Selections, rules \in RulesTexts :
       run' = [kind |-> "apply", agents |-> sel, i |-> 1, step |-> "backup",
               rules |-> rules, keepBackups |-> FALSE]
  /\ reported' = {} /\ outcome' = "running"
  /\ UNCHANGED <<fs, watched, pre, chain, orig>>
  /\ UNCHANGED <<selVars, rulesVars, mapVars, agentOptions>>

\* apply, step 1: the existing output file is copied to its backup
BackupStep ==
  /\ Active("apply", "backup")
  /\ fs' = backupFile(fs, currentPath)
  /\ run' = [run EXCEPT !.step = "write"]
  /\ BeginOp /\ BeginWindow
  /\ UNCHANGED <<reported, outcome, watched>>
  /\ UNCHANGED <<selVars, rulesVars, mapVars, agentOptions>>

\* apply, step 1 fails: the copy of an existing file throws
BackupFails ==
  /\ Active("apply", "backup")
  /\ exists(fs, currentPath)
  /\ reported' = reported \cup {current}
  /\ run' = afterFailure(run)
  /\ outcome' = IF run'.step = "done" THEN batchOutcome(reported') ELSE outcome
  /\ EndOp("broken", pre, chain)
  /\ UNCHANGED <<fs, watched, orig>>
  /\ UNCHANGED <<selVars, rulesVars, mapVars, agentOptions>>

\* apply, step 2: the rules are written to the output path
WriteStep ==
  /\ Active("apply", "write")
  /\ fs' = writeGeneratedFile(fs, currentPath, run.rules)
  /\ run' = advance(run)
  /\ outcome' = IF run'.step = "done" THEN batchOutcome(reported) ELSE outcome
  /\ EndOp(run.rules, pre, chain)
  /\ UNCHANGED <<reported, watched, orig>>
  /\ UNCHANGED <<selVars, rulesVars, mapVars, agentOptions>>

\* apply, step 2 fails: the write throws and leaves the file as it was
WriteFails ==
  /\ Active("apply", "write")
  /\ reported' = reported \cup {current}
  /\ run' = afterFailure(run)
  /\ outcome' = IF run'.step = "done" THEN batchOutcome(reported') ELSE outcome
  /\ EndOp("broken", pre, chain)
  /\ UNCHANGED <<fs, watched, orig>>
  /\ UNCHANGED <<selVars, rulesVars, mapVars, agentOptions>>

\* revert: a batch over the targeted agents begins
StartRevert ==
  /\ CanStart
  /\ \E sel \in Selections, keep \in BOOLEAN :
       run' = [kind |-> "revert", agents |-> sel, i |-> 1, step |-> "restore",
               rules |-> "none", keepBackups |-> keep]
  /\ reported' = {} /\ outcome' = "running"
  /\ UNCHANGED <<fs, watched, pre, chain, orig>>
  /\ UNCHANGED <<selVars, rulesVars, mapVars, agentOptions>>

\* revert, a backup exists and is kept: restore it, done with this agent
RestoreKeepingBackup ==
  /\ Active("revert", "restore")
  /\ exists(fs, backupPath(currentPath))
  /\ run.keepBackups
  /\ fs' = restoreFromBackup(fs, currentPath)
  /\ run' = advance(run)
  /\ outcome' = IF run'.step = "done" THEN batchOutcome(reported) ELSE outcome
  /\ EndOp("broken", pre, chain) /\ EndWindow
  /\ UNCHANGED <<reported, watched>>
  /\ UNCHANGED <<selVars, rulesVars, mapVars, agentOptions>>

\* revert, a backup exists: restore it, the backup is deleted next
RestoreStep ==
  /\ Active("revert", "restore")
  /\ exists(fs, backupPath(currentPath))
  /\ ~ run.keepBackups
  /\ fs' = restoreFromBackup(fs, currentPath)
  /\ run' = [run EXCEPT !.step = "delete"]
  /\ UNCHANGED <<reported, outcome, watched, pre, chain, orig>>
  /\ UNCHANGED <<selVars, rulesVars, mapVars, agentOptions>>

\* revert, the restore fails: backup unreadable or target unwritable
RestoreFails ==
  /\ Active("revert", "restore")
  /\ exists(fs, backupPath(currentPath))
  /\ reported' = reported \cup {current}
  /\ run' = afterFailure(run)
  /\ outcome' = IF run'.step = "done" THEN batchOutcome(reported') ELSE outcome
  /\ EndOp("broken", pre, chain) /\ EndWindow
  /\ UNCHANGED <<fs, watched>>
  /\ UNCHANGED <<selVars, rulesVars, mapVars, agentOptions>>

\* revert, after the restore: the backup artifact is deleted
DeleteBackupStep ==
  /\ Active("revert", "delete")
  /\ fs' = removeBackup(fs, currentPath)
  /\ run' = advance(run)
  /\ outcome' = IF run'.step = "done" THEN batchOutcome(reported) ELSE outcome
  /\ EndOp("revert", pre, chain) /\ EndWindow
  /\ UNCHANGED <<reported, watched>>
  /\ UNCHANGED <<selVars, rulesVars, mapVars, agentOptions>>

\* revert, no backup but a generated file: the file is deleted
RemoveGeneratedStep ==
  /\ Active("revert", "restore")
  /\ ~ exists(fs, backupPath(currentPath))
  /\ exists(fs, currentPath)
  /\ fs' = removeGeneratedFile(fs, currentPath)
  /\ run' = advance(run)
  /\ outcome' = IF run'.step = "done" THEN batchOutcome(reported) ELSE outcome
  /\ EndOp("revert", pre, chain) /\ EndWindow
  /\ UNCHANGED <<reported, watched>>
  /\ UNCHANGED <<selVars, rulesVars, mapVars, agentOptions>>

\* revert, neither backup nor file: nothing to do for this agent
NothingToRevert ==
  /\ Active("revert", "restore")
  /\ ~ exists(fs, backupPath(currentPath))
  /\ ~ exists(fs, currentPath)
  /\ run' = advance(run)
  /\ outcome' = IF run'.step = "done" THEN batchOutcome(reported) ELSE outcome
  /\ EndOp("broken", pre, chain) /\ EndWindow
  /\ UNCHANGED <<fs, reported, watched>>
  /\ UNCHANGED <<selVars, rulesVars, mapVars, agentOptions>>

Init == FsInit /\ SelIdle /\ RulesIdle /\ MapIdle

Next ==
  \/ StartApply \/ BackupStep \/ BackupFails \/ WriteStep \/ WriteFails
  \/ StartRevert \/ RestoreKeepingBackup \/ RestoreStep \/ RestoreFails
  \/ DeleteBackupStep \/ RemoveGeneratedStep \/ NothingToRevert

Spec == Init /\ [][Next]_vars


SelNext == Resolve /\ UNCHANGED <<rulesVars, fsVars, mapVars>>

InitSelect == SelInit /\ RulesIdle /\ FsIdle /\ MapIdle

SpecSelect == InitSelect /\ [][SelNext]_vars

RulesNext == Concatenate

InitRules == RulesInit /\ SelIdle /\ FsIdle /\ MapIdle

SpecRules == InitRules /\ [][RulesNext]_vars

InitMap == MapInit /\ SelIdle /\ RulesIdle /\ FsIdle

SpecMap == InitMap /\ [][MapRawAgentConfigs]_vars

----------------------------------------------------------------------------
(* Properties of resolveSelectedAgents *)

SelDone == selPc \in {"returned", "threw"}

CliGiven == config.cliAgents.present /\ Len(config.cliAgents.items) > 0
DefaultsGiven == config.defaultAgents.present /\ Len(config.defaultAgents.items) > 0

LoweredCli == [i \in 1..Len(config.cliAgents.items) |->
                 toLowerCase(config.cliAgents.items[i])]
LoweredDefaults == [i \in 1..Len(config.defaultAgents.items) |->
                      toLowerCase(config.defaultAgents.items[i])]

\* the entry equals the identifier or lies inside the lower-cased display name
EntryMatches(entry, agent) ==
  agent.id = entry \/ includes(toLowerCase(agent.name), entry)

EntryValid(entry) ==
  \E i \in 1..Len(allAgents) : EntryMatches(entry, allAgents[i])

AllValid(entries) == \A i \in 1..Len(entries) : EntryValid(entries[i])

MatchedBy(entries, agent) ==
  \E i \in 1..Len(entries) : EntryMatches(entries[i], agent)

\* s is the subsequence of the registry made of the agents satisfying Keep
IsRegistrySubsequence(s, Keep(_)) ==
  \E pick \in SUBSET (1..Len(allAgents)) :
    /\ pick = {i \in 1..Len(allAgents) : Keep(allAgents[i])}
    /\ Len(s) = Cardinality(pick)
    /\ \A k \in 1..Len(s) :
         \E i \in pick :
           /\ s[k] = allAgents[i]
           /\ Cardinality({j \in pick : j < i}) = k - 1

EnabledFlag(agent) ==
  IF config.agentConfigs[agent.id].present
  THEN config.agentConfigs[agent.id].enabled ELSE Undefined

\* C1: with a non-empty cliAgents whose lower-cased entries all match some agent,
\* the call returns exactly the registry subsequence of the agents matched by
\* some lower-cased filter (identifier equality or display-name substring),
\* whatever defaultAgents and the enabled flags are.
C1_CliSelectsExactlyMatches ==
  (SelDone /\ CliGiven /\ AllValid(LoweredCli)) =>
     /\ selPc = "returned"
     /\ ~ selection.threw
     /\ IsRegistrySubsequence(selection.agents,
                              LAMBDA a : MatchedBy(LoweredCli, a))

\* a CLI filter selects a disabled agent and leaves another agent out, while
\* default_agents holds an entry matching nothing
C1_Witness ==
  /\ selPc = "returned" /\ CliGiven /\ AllValid(LoweredCli)
  /\ DefaultsGiven /\ ~ AllValid(LoweredDefaults)
  /\ \E i \in 1..Len(selection.agents) :
       EnabledFlag(selection.agents[i]) = "false"
  /\ Len(selection.agents) < Len(allAgents)

\* the list of the active tier, lower-cased
ActiveEntries ==
  IF CliGiven THEN LoweredCli
  ELSE IF DefaultsGiven THEN LoweredDefaults ELSE <<>>

Unmatched == SelectSeq(ActiveEntries, LAMBDA e : ~ EntryValid(e))

RegistryIds == [i \in 1..Len(allAgents) |-> allAgents[i].id]

ExpectedErrorMessage ==
  <<"[","r","u","l","e","r","]"," ">>
    \o <<"I","n","v","a","l","i","d"," ","a","g","e","n","t"," ",
         "s","p","e","c","i","f","i","e","d">>
    \o (IF CliGiven THEN <<>>
        ELSE <<" ","i","n"," ","d","e","f","a","u","l","t","_",
               "a","g","e","n","t","s">>)
    \o <<":"," ">> \o join(Unmatched, <<",", " ">>)
    \o <<" ","(","C","o","n","t","e","x","t",":"," ",
         "V","a","l","i","d"," ","a","g","e","n","t","s"," ","a","r","e",":"," ">>
    \o join(RegistryIds, <<",", " ">>) \o <<")">>

\* C2: when the active list (cliAgents if non-empty, else defaultAgents if
\* non-empty) has an entry matching no agent, the call throws, selects nothing,
\* and its message names exactly the unmatched entries and every valid identifier.
C2_InvalidEntriesRejected ==
  (SelDone /\ Len(Unmatched) > 0) =>
     /\ selPc = "threw"
     /\ selection.threw
     /\ selection.agents = <<>>
     /\ selection.message = ExpectedErrorMessage

\* the default_agents tier throws on a list mixing a matched and an unmatched
\* entry, while some agent is enabled explicitly
C2_Witness ==
  /\ selPc = "threw" /\ ~ CliGiven /\ DefaultsGiven
  /\ Len(Unmatched) > 0 /\ Len(Unmatched) < Len(ActiveEntries)
  /\ \E i \in 1..Len(allAgents) : EnabledFlag(allAgents[i]) = "true"
  /\ Len(allAgents) = 2

\* C3: with no CLI filter and a non-empty, fully valid defaultAgents, an agent
\* is selected iff enabled is true, or enabled is unset and a default entry
\* matches it.
C3_DefaultsWithOverrides ==
  (SelDone /\ ~ CliGiven /\ DefaultsGiven /\ AllValid(LoweredDefaults)) =>
     /\ selPc = "returned"
     /\ IsRegistrySubsequence(selection.agents,
          LAMBDA a : \/ EnabledFlag(a) = "true"
                     \/ /\ EnabledFlag(a) = Undefined
                        /\ MatchedBy(LoweredDefaults, a))

\* a default entry names a disabled agent, which is left out, and an agent
\* matching no default entry is selected because it is enabled
C3_Witness ==
  /\ selPc = "returned" /\ ~ CliGiven /\ DefaultsGiven
  /\ AllValid(LoweredDefaults)
  /\ \E i \in 1..Len(allAgents) :
       /\ EnabledFlag(allAgents[i]) = "false"
       /\ MatchedBy(LoweredDefaults, allAgents[i])
       /\ \A k \in 1..Len(selection.agents) : selection.agents[k] # allAgents[i]
  /\ \E k \in 1..Len(selection.agents) :
       /\ EnabledFlag(selection.agents[k]) = "true"
       /\ ~ MatchedBy(LoweredDefaults, selection.agents[k])

\* C4: with neither CLI filters nor default agents the call returns and selects
\* exactly the agents whose enabled flag is not explicitly false.
C4_FallbackAllButDisabled ==
  (SelDone /\ ~ CliGiven /\ ~ DefaultsGiven) =>
     /\ selPc = "returned"
     /\ ~ selection.threw
     /\ IsRegistrySubsequence(selection.agents,
          LAMBDA a : ~ (/\ config.agentConfigs[a.id].present
                        /\ config.agentConfigs[a.id].enabled = "false"))

\* the fallback keeps an agent without any configuration entry and drops a
\* disabled one
C4_Witness ==
  /\ selPc = "returned" /\ ~ CliGiven /\ ~ DefaultsGiven
  /\ \E k \in 1..Len(selection.agents) :
       ~ config.agentConfigs[selection.agents[k].id].present
  /\ \E i \in 1..Len(allAgents) :
       /\ EnabledFlag(allAgents[i]) = "false"
       /\ \A k \in 1..Len(selection.agents) : selection.agents[k] # allAgents[i]

----------------------------------------------------------------------------
(* Properties of concatenateRules *)

EffectiveBase == IF Len(baseDir) > 0 THEN baseDir ELSE Cwd

\* separator line, Source line, separator line, trimmed content, blank line
ExpectedBlock(f) ==
  <<"-","-","-",NL>>
    \o <<"S","o","u","r","c","e",":"," ">> \o relative(EffectiveBase, f.path)
    \o <<NL,"-","-","-",NL>>
    \o trim(f.content) \o <<NL>>

RECURSIVE BlocksInOrder(_)
BlocksInOrder(frags) ==
  IF Len(frags) = 0 THEN <<>>
  ELSE IF Len(frags) = 1 THEN ExpectedBlock(frags[1])
  ELSE ExpectedBlock(frags[1]) \o <<NL>> \o BlocksInOrder(Tail(frags))

\* C9: for non-empty A and B and one base directory, concatenateRules(A \o B) is
\* concatenateRules(A), one newline, concatenateRules(B), and it is the blocks
\* of the fragments in input order, each block made of the separator line, the
\* Source line with the relative path, the separator line, the trimmed content
\* and a blank line.
C9_ConcatenationAppends ==
  (rulesPc = "returned" /\ Len(fragsA) > 0 /\ Len(fragsB) > 0) =>
     /\ rulesOut.ab = rulesOut.a \o <<NL>> \o rulesOut.b
     /\ rulesOut.ab = BlocksInOrder(fragsA \o fragsB)

\* two fragments followed by a different one, under a given base directory that
\* is not a prefix of every path, with content that trimming shortens
C9_Witness ==
  /\ rulesPc = "returned"
  /\ Len(fragsA) = 2 /\ Len(fragsB) > 0
  /\ fragsA[1] # fragsA[2] /\ fragsA[2] # fragsB[1]
  /\ Len(baseDir) > 0
  /\ relative(baseDir, fragsB[1].path)[1] = "."
  /\ trim(fragsA[1].content) # fragsA[1].content
  /\ Len(rulesOut.ab) > Len(rulesOut.a) + Len(rulesOut.b)

----------------------------------------------------------------------------
(* Properties of apply and revert *)

watchedPath == resolveOutputPath(agentOptions, watched)
watchedBackup == backupPath(watchedPath)

\* the watched agent is between the two steps of an apply or of a revert
WatchedBusy ==
  /\ run.step \in {"write", "delete"}
  /\ run.agents[run.i] = watched

\* the recorded history is one apply followed by a revert that drops backups
AppliedThenReverted ==
  Len(chain) = 2 /\ chain[1] \in RulesTexts /\ chain[2] = "revert"

\* C5: an agent whose output file held C before an apply of D, reverted with
\* keepBackups = false, has C in its output file again and no backup artifact.
C5_RevertRestoresOriginal ==
  (AppliedThenReverted /\ pre.file # NoFile) =>
     /\ fs[watchedPath] = pre.file
     /\ fs[watchedBackup] = NoFile

\* the original replaced an older backup during the apply and is back in place
C5_Witness ==
  /\ AppliedThenReverted
  /\ pre.file = "original" /\ pre.bak = "older"
  /\ chain[1] = "rules-2"
  /\ fs[watchedPath] = "original"
  /\ run.step = "done" /\ run.kind = "revert"

\* C6: with no output file before the apply, the apply creates the
\* file with the rules and the following revert leaves neither file nor backup.
C6_NoFileBeforeApply ==
  /\ (Len(chain) = 1 /\ pre.file = NoFile /\ ~ WatchedBusy) =>
        fs[watchedPath] = chain[1]
  /\ (AppliedThenReverted /\ pre.file = NoFile) =>
        /\ fs[watchedPath] = NoFile
        /\ fs[watchedBackup] = NoFile

\* C7: after two applies of the same rules the backup holds the content the
\* output file had before the first apply, and a revert after them restores it.
C7_BackupNeverChained ==
  /\ (/\ Len(chain) = 2 /\ chain[1] = chain[2] /\ chain[2] \in RulesTexts
      /\ pre.file # NoFile /\ ~ WatchedBusy) =>
        fs[watchedBackup] = pre.file
  /\ (/\ Len(chain) = 3 /\ chain[1] = chain[2] /\ chain[3] = "revert"
      /\ pre.file # NoFile) =>
        fs[watchedPath] = pre.file

\* the artifacts at path + suffix, path + suffix + suffix, ...
BackupArtifacts(p) ==
  {q \in Paths : /\ Len(q) > Len(p)
                 /\ SubSeq(q, 1, Len(p)) = p
                 /\ \A k \in (Len(p) + 1)..Len(q) : q[k] = BACKUP_SUFFIX
                 /\ fs[q] # NoFile}

\* C10: the backup is complete when the write starts and the restore is
\* complete when the backup is deleted; from the start of an apply to the end
\* of the following revert the content the output file had before the apply is
\* in the output file or in the backup; a path has at most one backup artifact.
C10_OriginalNeverLost ==
  /\ (run.kind = "apply" /\ run.step = "write" /\ fs[currentPath] # NoFile) =>
        fs[backupPath(currentPath)] = fs[currentPath]
  /\ (run.kind = "revert" /\ run.step = "delete") =>
        fs[currentPath] = fs[backupPath(currentPath)]
  /\ (orig # NoWindow /\ orig # NoFile) =>
        (fs[watchedPath] = orig \/ fs[watchedBackup] = orig)
  /\ \A p \in OutputPaths : Cardinality(BackupArtifacts(p)) <= 1

----------------------------------------------------------------------------
(* Properties of mapRawAgentConfigs *)

\* the raw keys, by position, that name the agent: lower-cased, the key equals
\* the identifier or lies inside the lower-cased display name
KeysNaming(agent) ==
  {k \in 1..Len(rawConfigs) :
     \/ toLowerCase(rawConfigs[k].key) = agent.id
     \/ includes(toLowerCase(agent.name), toLowerCase(rawConfigs[k].key))}

LastOf(S) == CHOOSE k \in S : \A j \in S : j <= k

\* C11: the result's keys are identifiers of listed agents; an identifier is a
\* key iff some lower-cased raw key equals it or lies inside that agent's
\* lower-cased display name; its value is the configuration of the last such
\* raw key in iteration order.
C11_KeysMapToAgents ==
  mapPc = "returned" =>
     /\ DOMAIN mappedConfigs \subseteq
          {mapAgents[i].id : i \in 1..Len(mapAgents)}
     /\ \A i \in 1..Len(mapAgents) :
          /\ (mapAgents[i].id \in DOMAIN mappedConfigs)
               <=> (KeysNaming(mapAgents[i]) # {})
          /\ (KeysNaming(mapAgents[i]) # {}) =>
               mappedConfigs[mapAgents[i].id] =
                 rawConfigs[LastOf(KeysNaming(mapAgents[i]))].cfg

\* two raw keys name one agent with different configurations and the later one
\* wins, one raw key reaches two agents, another agent is left without entry
C11_Witness ==
  /\ mapPc = "returned"
  /\ Len(rawConfigs) = 2 /\ rawConfigs[1].cfg # rawConfigs[2].cfg
  /\ \E i \in 1..Len(mapAgents) :
       /\ KeysNaming(mapAgents[i]) = {1, 2}
       /\ mappedConfigs[mapAgents[i].id] = rawConfigs[2].cfg
  /\ \E k \in 1..Len(rawConfigs) :
       Cardinality({i \in 1..Len(mapAgents) : k \in KeysNaming(mapAgents[i])}) = 2

====
